---------------------------- MODULE Spec2Model ----------------------------
(***************************************************************************)
(* Model of the image-generation request pipeline of EpoxyView:            *)
(*   - the client, src/services/geminiService.ts (resizeImage and          *)
(*     generateFlooringVisualization), one call from start to settlement;  *)
(*   - the proxy, src/functions/api/generate.ts (onRequestPost) and its    *)
(*     origin-checking variant.                                            *)
(*                                                                         *)
(* JavaScript strings are sequences of tokens: a fixed message is a        *)
(* one-token sequence, concatenation is \o, and String.includes(marker)    *)
(* is the presence of the marker token.  A JavaScript value that may be    *)
(* undefined is a record [def, val].                                       *)
(***************************************************************************)
EXTENDS Integers, Sequences, FiniteSets, TLC

VARIABLES
    pc,            \* position of the generateFlooringVisualization call
    base64Image,   \* argument: the captured image
    imgSize,       \* img.width and img.height once the image has loaded
    canvas,        \* size of the canvas onload has allocated
    resizedImage,  \* the value resizeImage's promise was resolved with
    resizeFirst,   \* which of timeout, load and error came first
    imgPending,    \* the Image element has fired neither onload nor onerror
    resizeTimer,   \* resizeImage's safety timer is armed
    resizeSettled, \* resizeImage's promise has been resolved
    mimeType,      \* local mimeType
    cleanBase64,   \* local cleanBase64
    attempts,      \* local attempts
    abortTimer,    \* the abort timer of the current attempt is armed
    timers,        \* the attempts whose abort timer is armed
    requests,      \* number of fetch('/api/generate') calls issued
    status,        \* response.status of the current attempt (0: none yet)
    resp,          \* the body read from the current response
    waits,         \* the wait between each attempt and the next, in order
    log,           \* outcome of each finished attempt, in order
    underlying,    \* the error caught by the outer catch
    result,        \* settlement of the call
    deployment,    \* which onRequestPost is deployed
    env,           \* the proxy's environment bindings
    ppc,           \* position of the proxy's onRequestPost
    method,        \* the method of the request being handled
    request,       \* the request being handled
    credentialRead,\* the handler has read the upstream credential
    upstreamCalls, \* number of fetch calls to the upstream provider
    upstreamReq,   \* the request forwarded upstream
    upstreamAnswer,\* what the upstream provider answered
    response,      \* the Response returned to the client
    state,         \* the App's reducer state
    viteKey,       \* import.meta.env.VITE_INTERNAL_API_KEY is set
    pending,       \* the generation requests the App is awaiting
    started,       \* number of generation requests the App has started
    lastEvent      \* what happened last in the App

clientVars == <<pc, base64Image, imgSize, canvas, resizedImage, resizeFirst, imgPending, resizeTimer, resizeSettled,
                mimeType, cleanBase64, attempts, abortTimer, timers, requests,
                status, resp, waits, log, underlying, result>>

proxyVars == <<deployment, env, ppc, method, request, credentialRead,
               upstreamCalls, upstreamReq, upstreamAnswer, response>>

appVars == <<state, viteKey, pending, started, lastEvent>>

vars == <<clientVars, proxyVars, appVars>>

-----------------------------------------------------------------------------
(* Bounds *)

MaxParts == 2      \* longest parts[] array of a response envelope
MaxGenerations == 2 \* generation requests the App starts in one run

-----------------------------------------------------------------------------
(* JavaScript values *)

Undefined == [def |-> FALSE, val |-> <<>>]
Str(s) == [def |-> TRUE, val |-> s]

\* JavaScript truthiness of a string-or-undefined value
Truthy(v) == v.def /\ v.val # <<>>

\* String.prototype.includes for a marker token
Includes(m, marker) == \E i \in 1..Len(m) : m[i] = marker


-----------------------------------------------------------------------------
(* Program constants of the client *)

MAX_RETRIES == 3
BACKOFF_BASE_MS == 2000

ServiceBusyMsg == <<"Service busy. Please try again in a moment.">>
TimeoutMsg == <<"Request timed out. The server took too long to respond.">>
EmptyResponseMsg == <<"The model returned an empty response.">>
HighTrafficMsg == <<"High traffic volume. Please wait 1 minute and try again.">>
FailedMsg == <<"Failed to process image.">>
PngPrefix == <<"data:image/png;base64,">>

\* messages of the errors the JavaScript engine itself raises
JsonSyntaxMsg == <<"Unexpected end of JSON input">>
NullCandidatesMsg == <<"Cannot read properties of null (reading 'candidates')">>
NullErrorMsg == <<"Cannot read properties of null (reading 'error')">>
NoContentMsg == <<"Cannot read properties of undefined (reading 'parts')">>
NotIterableMsg == <<"parts is not iterable">>

Err(name, message) == [name |-> name, message |-> message]

-----------------------------------------------------------------------------
(* Inputs: images *)

MaxImageLength == 7000000

\* A data URL "data:<mime>;base64,<payload>" is [mime, payload, len]; mime =
\* "" is a string with no data-URL prefix, len is the payload's length in
\* characters.
SourceMimes == {"", "image/png", "image/jpeg", "image/gif"}
LoopImageLength == 4000
SourceLengths == {LoopImageLength, MaxImageLength, MaxImageLength + 1}
SourceImages == [mime : SourceMimes, payload : {<<"SRC">>}, len : SourceLengths]

MAX_DIMENSION == 1024

\* img.width, img.height of the decoded source
Sides == {1, 2, 3, 511, 512, 561, 1023, 1024, 1025, 1122, 1536, 2000, 2048,
          2244, 3000, 4096}
ImageSizes == [width : Sides, height : Sides]
NoCanvas == [width |-> 0 - 1, height |-> 0 - 1]
NoDataUrl == [mime |-> "", payload |-> <<>>, len |-> 0]

\* 2^n mod w
RECURSIVE PowMod(_, _)
PowMod(n, w) == IF n = 0 THEN 1 % w ELSE (2 * PowMod(n - 1, w)) % w

\* least L with w <= 2^L, and greatest j with 2^j <= k
RECURSIVE CeilLog2(_)
CeilLog2(w) == IF w <= 1 THEN 0 ELSE 1 + CeilLog2((w + 1) \div 2)
RECURSIVE FloorLog2(_)
FloorLog2(k) == IF k <= 1 THEN 0 ELSE 1 + FloorLog2(k \div 2)

\* The product s * (maxDimension / l) is computed in IEEE-754 doubles: the
\* quotient is rounded to 53 bits, then the product is.  When s*1024/l is
\* an integer k, the quotient's rounding error r/l ulp (r = 2^(52+L) mod l)
\* can leave the rounded product just below k; this is when it does.
RoundsBelow(k, l) ==
    LET L == CeilLog2(l)
        r == PowMod(52 + L, l)
        j == FloorLog2(k)
    IN  /\ r # 0
        /\ 2 * r < l
        /\ IF k = 2 ^ j THEN 4 * r > 2 ^ L ELSE 2 * k * r > 2 ^ (j + L)

\* FloorScaled with Math.round in place of Math.floor
FloorScaled_Round(s, l) == (s * MAX_DIMENSION + l \div 2) \div l

\* Math.floor(s * (maxDimension / l)) for 1 <= s <= l, l > maxDimension
FloorScaled(s, l) ==
    LET k == (s * MAX_DIMENSION) \div l
    IN  IF (s * MAX_DIMENSION) % l = 0 /\ RoundsBelow(k, l) THEN k - 1 ELSE k

\* Lines 20-36: the size of the canvas
CanvasSize(size) ==
    IF size.width > MAX_DIMENSION \/ size.height > MAX_DIMENSION
    THEN IF size.width > size.height
         THEN [width |-> MAX_DIMENSION, height |-> FloorScaled(size.height, size.width)]
         ELSE [width |-> FloorScaled(size.width, size.height), height |-> MAX_DIMENSION]
    ELSE size

\* canvas.toDataURL('image/jpeg', 0.8)
\* its length is taken at an upper estimate: 1.5 bytes per pixel of the
\* largest canvas, four characters for three bytes
CanvasJpegLength == MAX_DIMENSION * MAX_DIMENSION * 2
CanvasJpeg == [mime |-> "image/jpeg", payload |-> <<"JPEG">>, len |-> CanvasJpegLength]

\* toDataURL of a canvas with no pixels is the string "data:,"
CanvasDataUrl(c) ==
    IF c.width = 0 \/ c.height = 0
    THEN [mime |-> "", payload |-> <<"data:,">>, len |-> 6]
    ELSE CanvasJpeg

\* base64Image.match(/^data:(image\/[a-zA-Z+]+);base64,/)
InitialMime(img) == IF img.mime # "" THEN img.mime ELSE "image/jpeg"

\* resizedImage.startsWith('data:image/jpeg') ? 'image/jpeg' : mimeType
MimeAfterResize(resized, mime) ==
    IF resized.mime = "image/jpeg" THEN "image/jpeg" ELSE mime

\* resizedImage.replace(/^data:image\/(png|jpeg|jpg|webp|heic|heif);base64,/, '')
StrippedMimes == {"image/png", "image/jpeg", "image/jpg", "image/webp",
                  "image/heic", "image/heif"}
CleanBase64(resized) ==
    IF resized.mime \in StrippedMimes
    THEN [mime |-> "", payload |-> resized.payload, len |-> resized.len]
    ELSE resized

\* "data:image/gif;base64,".length
GifPrefixLength == 22

\* cleanBase64.length: a prefix that was not removed is part of the string
StringLength(clean) ==
    IF clean.mime = "" THEN clean.len ELSE clean.len + GifPrefixLength

-----------------------------------------------------------------------------
(* Inputs: what the proxy answers *)

NoBody == [kind |-> "none"]

CamelDataVals == {<<>>, <<"AAA">>}
SnakeDataVals == {<<"BBB">>}
TextVals == {<<>>, <<"I cannot edit this image">>,
             <<"Daily ", "quota", " exceeded">>,
             <<"Upstream said ", "429">>}

\* One element of candidates[0].content.parts: the API returns the image
\* under camelCase 'inlineData' or snake_case 'inline_data', or a text.
PartValues ==
    { [inlineData |-> Undefined, inline_data |-> Undefined, text |-> Undefined] }
    \cup { [inlineData |-> Str(d), inline_data |-> Undefined, text |-> Undefined]
             : d \in CamelDataVals }
    \cup { [inlineData |-> Undefined, inline_data |-> Str(d), text |-> Undefined]
             : d \in SnakeDataVals }
    \cup { [inlineData |-> Undefined, inline_data |-> Undefined, text |-> Str(t)]
             : t \in TextVals }

PartSeqs == UNION { [1..n -> PartValues] : n \in 0..MaxParts }

\* Bodies of a 2xx response
OkBodies ==
    { [kind |-> k, parts |-> <<>>]
        : k \in {"unparsable", "null", "noCandidates", "emptyCandidates",
                 "noContent", "noParts"} }
    \cup { [kind |-> "parts", parts |-> ps] : ps \in PartSeqs }

\* Bodies of a non-2xx response
ErrorVals == {Undefined, Str(<<"Failed to generate content from AI provider">>)}
DetailVals == {Undefined, Str(<<"503", ": ", "The model is overloaded">>),
               Str(<<"429", ": ", "Resource exhausted">>),
               Str(<<"400", ": ", "quota", " project not found">>)}
ErrorBodies ==
    { [kind |-> k, error |-> Undefined, details |-> Undefined]
        : k \in {"unparsable", "null"} }
    \cup { [kind |-> "object", error |-> e, details |-> d]
             : e \in ErrorVals, d \in DetailVals }

OkStatuses == {200}
ErrorStatuses == {400, 500}
RateLimited == 429

\* fetch() rejections other than an abort
TransportErrors == { Err("TypeError", <<"Failed to fetch">>),
                     Err("TypeError", <<>>) }

-----------------------------------------------------------------------------
(* The client's pure steps *)

Min(S) == CHOOSE x \in S : \A y \in S : x <= y

\* const inlineData = part.inlineData || part.inline_data
InlineOf(part) == IF part.inlineData.def THEN part.inlineData ELSE part.inline_data

\* indices of the parts the first loop returns on
ImageParts(parts) == { i \in 1..Len(parts) : Truthy(InlineOf(parts[i])) }

\* indices of the parts the second loop throws on
TextParts(parts) == { i \in 1..Len(parts) : Truthy(parts[i].text) }

Return(v) == [t |-> "return", value |-> v, name |-> "", message |-> <<>>]
Throw(name, message) == [t |-> "throw", value |-> <<>>, name |-> name, message |-> message]

Max(S) == CHOOSE x \in S : \A y \in S : x >= y

\* the two loops in the wrong order: a text part wins over a later image
ReadEnvelope_TextFirst(body) ==
    CASE body.kind = "unparsable" -> Throw("SyntaxError", JsonSyntaxMsg)
      [] body.kind = "null" -> Throw("TypeError", NullCandidatesMsg)
      [] body.kind \in {"noCandidates", "emptyCandidates"} ->
            Throw("Error", EmptyResponseMsg)
      [] body.kind = "noContent" -> Throw("TypeError", NoContentMsg)
      [] body.kind = "noParts" -> Throw("TypeError", NotIterableMsg)
      [] body.kind = "parts" ->
            IF TextParts(body.parts) # {}
            THEN Throw("Error", body.parts[Min(TextParts(body.parts))].text.val)
            ELSE IF ImageParts(body.parts) # {}
            THEN Return(PngPrefix \o InlineOf(body.parts[Min(ImageParts(body.parts))]).val)
            ELSE Throw("Error", EmptyResponseMsg)

\* the second loop keeps the last text instead of throwing on the first
ReadEnvelope_LastText(body) ==
    CASE body.kind = "unparsable" -> Throw("SyntaxError", JsonSyntaxMsg)
      [] body.kind = "null" -> Throw("TypeError", NullCandidatesMsg)
      [] body.kind \in {"noCandidates", "emptyCandidates"} ->
            Throw("Error", EmptyResponseMsg)
      [] body.kind = "noContent" -> Throw("TypeError", NoContentMsg)
      [] body.kind = "noParts" -> Throw("TypeError", NotIterableMsg)
      [] body.kind = "parts" ->
            IF ImageParts(body.parts) # {}
            THEN Return(PngPrefix \o InlineOf(body.parts[Min(ImageParts(body.parts))]).val)
            ELSE IF TextParts(body.parts) # {}
            THEN Throw("Error", body.parts[Max(TextParts(body.parts))].text.val)
            ELSE Throw("Error", EmptyResponseMsg)

\* Lines 127-150: the body of a 2xx response is read and scanned.
ReadEnvelope(body) ==
    CASE body.kind = "unparsable" -> Throw("SyntaxError", JsonSyntaxMsg)
      [] body.kind = "null" -> Throw("TypeError", NullCandidatesMsg)
      [] body.kind \in {"noCandidates", "emptyCandidates"} ->
            Throw("Error", EmptyResponseMsg)
      [] body.kind = "noContent" -> Throw("TypeError", NoContentMsg)
      [] body.kind = "noParts" -> Throw("TypeError", NotIterableMsg)
      [] body.kind = "parts" ->
            IF ImageParts(body.parts) # {}
            THEN Return(PngPrefix \o InlineOf(body.parts[Min(ImageParts(body.parts))]).val)
            ELSE IF TextParts(body.parts) # {}
            THEN Throw("Error", body.parts[Min(TextParts(body.parts))].text.val)
            ELSE Throw("Error", EmptyResponseMsg)

\* Lines 120-125: the body of a non-2xx, non-429 response becomes an Error.
\* response.json().catch(() => ({})) turns an unparsable body into {}.
ReadErrorBody(st, body) ==
    IF body.kind = "null"
    THEN Throw("TypeError", NullErrorMsg)
    ELSE LET mainError == IF Truthy(body.error) THEN body.error.val
                          ELSE <<"Server error: ", ToString(st)>>
             details == IF Truthy(body.details)
                        THEN <<" (">> \o body.details.val \o <<")">>
                        ELSE <<>>
         IN  Throw("Error", mainError \o details)

\* Line 114: 2000 * Math.pow(2, attempts)
WaitTime(att) == BACKOFF_BASE_MS * (2 ^ att)

\* Line 160: the inner catch rethrows instead of retrying
Rethrows(att, message) ==
    att >= MAX_RETRIES - 1 \/ (message # <<>> /\ ~Includes(message, "429"))

\* the translation without the "quota" marker
Translate_NoQuota(message) ==
    IF Includes(message, "429")
    THEN HighTrafficMsg
    ELSE IF message # <<>> THEN message ELSE FailedMsg

\* Lines 171-174: the outer catch's translation of the failure message
Translate(message) ==
    IF Includes(message, "quota") \/ Includes(message, "429")
    THEN HighTrafficMsg
    ELSE IF message # <<>> THEN message ELSE FailedMsg

-----------------------------------------------------------------------------
(* Control flow shared by the handlers.  Each of these fixes pc, attempts,  *)
(* abortTimer, requests, status, resp, underlying and result.               *)

NoResult == [kind |-> "pending", value |-> <<>>]

\* return <value> inside the loop: the promise resolves
Resolves(value, st, body) ==
    /\ pc' = "resolved"
    /\ result' = [kind |-> "resolved", value |-> value]
    /\ abortTimer' = FALSE
    /\ status' = st
    /\ resp' = body
    /\ UNCHANGED <<attempts, requests, underlying>>

\* Lines 169-175: the outer catch; the promise rejects
OuterCatch(message, att, st, body) ==
    /\ pc' = "rejected"
    /\ underlying' = Str(message)
    /\ result' = [kind |-> "rejected", value |-> Translate(message)]
    /\ attempts' = att
    /\ abortTimer' = FALSE
    /\ status' = st
    /\ resp' = body
    /\ UNCHANGED requests

\* the loop test off by one: while (attempts <= MAX_RETRIES)
LoopHead_OffByOne(att, st, body) ==
    IF att <= MAX_RETRIES
    THEN /\ pc' = "fetching"
         /\ attempts' = att
         /\ abortTimer' = TRUE
         /\ requests' = requests + 1
         /\ status' = 0
         /\ resp' = NoBody
         /\ UNCHANGED <<underlying, result>>
    ELSE OuterCatch(ServiceBusyMsg, att, st, body)

\* Lines 82-106 and 167: the loop test; a new attempt arms its abort timer
\* and issues its fetch, or the loop is left and "Service busy" is thrown.
LoopHead(att, st, body) ==
    IF att < MAX_RETRIES
    THEN /\ pc' = "fetching"
         /\ attempts' = att
         /\ abortTimer' = TRUE
         /\ requests' = requests + 1
         /\ status' = 0
         /\ resp' = NoBody
         /\ UNCHANGED <<underlying, result>>
    ELSE OuterCatch(ServiceBusyMsg, att, st, body)

\* the inner catch without its AbortError test
InnerCatch_NoAbortCheck(err, st, body) ==
    IF Rethrows(attempts, err.message)
    THEN OuterCatch(err.message, attempts, st, body)
    ELSE LoopHead(attempts + 1, st, body)

\* Lines 152-164: the inner catch
InnerCatch(err, st, body) ==
    IF err.name = "AbortError"
    THEN OuterCatch(TimeoutMsg, attempts, st, body)
    ELSE IF Rethrows(attempts, err.message)
         THEN OuterCatch(err.message, attempts, st, body)
         ELSE LoopHead(attempts + 1, st, body)

\* Line 84: setTimeout(() => controller.abort(), REQUEST_TIMEOUT_MS) of a
\* new attempt; lines 108 and 153: clearTimeout(timeoutId)
Armed(ts, att) == IF att < MAX_RETRIES THEN ts \cup {att} ELSE ts
Cleared(ts) == ts \ {attempts}

\* the inner catch clears the attempt's timer, and the next attempt, when
\* there is one, arms its own
TimersAfterCatch(err) ==
    IF err.name = "AbortError" \/ Rethrows(attempts, err.message)
    THEN Cleared(timers)
    ELSE Armed(Cleared(timers), attempts + 1)

\* Lines 71-77, then the loop: what runs once resizeImage has resolved
AfterResize(resized) ==
    /\ resizeSettled' = TRUE
    /\ timers' = Armed(timers, 0)
    /\ resizedImage' = resized
    /\ mimeType' = MimeAfterResize(resized, mimeType)
    /\ cleanBase64' = CleanBase64(resized)
    /\ LoopHead(0, 0, NoBody)

flowVars == <<pc, attempts, abortTimer, requests, status, resp, underlying, result>>

-----------------------------------------------------------------------------
(* The client: one call of generateFlooringVisualization *)

ClientInit ==
    /\ pc = "idle"
    /\ base64Image \in SourceImages
    /\ imgSize \in ImageSizes
    /\ canvas = NoCanvas
    /\ resizedImage = NoDataUrl
    /\ resizeFirst = "none"
    /\ imgPending = FALSE
    /\ resizeTimer = FALSE
    /\ resizeSettled = FALSE
    /\ mimeType = ""
    /\ cleanBase64 = NoDataUrl
    /\ attempts = 0
    /\ abortTimer = FALSE
    /\ timers = {}
    /\ requests = 0
    /\ status = 0
    /\ resp = NoBody
    /\ waits = <<>>
    /\ log = <<>>
    /\ underlying = Undefined
    /\ result = NoResult

Attempt(kind) == [kind |-> kind, status |-> status]

\* Lines 56-69 and 8-17: the call starts, resizeImage arms its safety timer
\* and hands the image to the decoder.
generateFlooringVisualization ==
    /\ pc = "idle"
    /\ pc' = "resizing"
    /\ mimeType' = InitialMime(base64Image)
    /\ resizeTimer' = TRUE
    /\ imgPending' = TRUE
    /\ UNCHANGED <<base64Image, imgSize, canvas, resizedImage, resizeFirst,
                   resizeSettled, cleanBase64, attempts, abortTimer, timers,
                   requests, status, resp, waits, log, underlying, result>>
    /\ UNCHANGED <<proxyVars, appVars>>

\* Lines 11-14: the safety timer fires and resolves with the original.
ResizeTimeout ==
    /\ resizeTimer
    /\ resizeTimer' = FALSE
    /\ resizeFirst' = "timeout"
    /\ AfterResize(base64Image)
    /\ UNCHANGED <<base64Image, imgSize, canvas, imgPending, waits, log>>
    /\ UNCHANGED <<proxyVars, appVars>>

\* an onload whose late resolve replaces the value already delivered
ImgOnload_ResolvesAgain(outcome) ==
    /\ imgPending
    /\ imgPending' = FALSE
    /\ resizeTimer' = FALSE
    /\ resizeFirst' = IF resizeFirst = "none" THEN "load" ELSE resizeFirst
    /\ canvas' = CanvasSize(imgSize)
    /\ IF outcome = "throws"
       THEN UNCHANGED <<resizeSettled, resizedImage, mimeType, cleanBase64, timers,
                        flowVars>>
       ELSE IF resizeSettled
       THEN /\ resizedImage' = IF outcome = "jpeg"
                               THEN CanvasDataUrl(CanvasSize(imgSize)) ELSE base64Image
            /\ UNCHANGED <<resizeSettled, mimeType, cleanBase64, timers, flowVars>>
       ELSE AfterResize(IF outcome = "jpeg" THEN CanvasDataUrl(CanvasSize(imgSize))
                        ELSE base64Image)
    /\ UNCHANGED <<base64Image, imgSize, waits, log>>
    /\ UNCHANGED <<proxyVars, appVars>>

\* Lines 18-45: img.onload; drawing or encoding may throw after the timer
\* has been cleared, and then nothing is resolved.
ImgOnload(outcome) ==
    /\ imgPending
    /\ imgPending' = FALSE
    /\ resizeTimer' = FALSE
    /\ resizeFirst' = IF resizeFirst = "none" THEN "load" ELSE resizeFirst
    /\ canvas' = CanvasSize(imgSize)
    /\ IF resizeSettled \/ outcome = "throws"
       THEN UNCHANGED <<resizeSettled, resizedImage, mimeType, cleanBase64, timers,
                        flowVars>>
       ELSE AfterResize(IF outcome = "jpeg" THEN CanvasDataUrl(CanvasSize(imgSize))
                        ELSE base64Image)
    /\ UNCHANGED <<base64Image, imgSize, waits, log>>
    /\ UNCHANGED <<proxyVars, appVars>>

\* Lines 46-50: img.onerror
ImgOnerror ==
    /\ imgPending
    /\ imgPending' = FALSE
    /\ resizeTimer' = FALSE
    /\ resizeFirst' = IF resizeFirst = "none" THEN "error" ELSE resizeFirst
    /\ IF resizeSettled
       THEN UNCHANGED <<resizeSettled, resizedImage, mimeType, cleanBase64, timers,
                        flowVars>>
       ELSE AfterResize(base64Image)
    /\ UNCHANGED <<base64Image, imgSize, canvas, waits, log>>
    /\ UNCHANGED <<proxyVars, appVars>>

resizeVars == <<base64Image, imgSize, canvas, resizedImage, resizeFirst, imgPending, resizeTimer, resizeSettled, mimeType,
                cleanBase64>>

\* fetch resolving without clearTimeout(timeoutId)
FetchResolves_KeepsTimer(st) ==
    /\ pc = "fetching"
    /\ pc' = IF st = RateLimited THEN "body429"
             ELSE IF st \in OkStatuses THEN "bodyOk" ELSE "bodyError"
    /\ status' = st
    /\ abortTimer' = FALSE
    /\ UNCHANGED timers
    /\ UNCHANGED <<resizeVars, attempts, requests, resp, waits, log,
                   underlying, result>>
    /\ UNCHANGED <<proxyVars, appVars>>

\* Lines 88-108: fetch resolves with the response's status line; the abort
\* timer is cleared; the body is then read with response.json().
FetchResolves(st) ==
    /\ pc = "fetching"
    /\ pc' = IF st = RateLimited THEN "body429"
             ELSE IF st \in OkStatuses THEN "bodyOk" ELSE "bodyError"
    /\ status' = st
    /\ abortTimer' = FALSE
    /\ timers' = Cleared(timers)
    /\ UNCHANGED <<resizeVars, attempts, requests, resp, waits, log,
                   underlying, result>>
    /\ UNCHANGED <<proxyVars, appVars>>

\* Lines 111-115: the 429 body has been read (or has failed to parse) and
\* the back-off delay starts.
Body429Read ==
    /\ pc = "body429"
    /\ pc' = "backoff"
    /\ waits' = Append(waits, [attempt |-> attempts, after |-> "429",
                                ms |-> WaitTime(attempts)])
    /\ UNCHANGED <<resizeVars, attempts, abortTimer, timers, requests, status, resp,
                   log, underlying, result>>
    /\ UNCHANGED <<proxyVars, appVars>>

\* the 429 branch without attempts++
BackoffElapsed_NoIncrement ==
    /\ pc = "backoff"
    /\ log' = Append(log, Attempt("status"))
    /\ LoopHead(attempts, status, resp)
    /\ timers' = Armed(timers, attempts)
    /\ UNCHANGED <<resizeVars, waits>>
    /\ UNCHANGED <<proxyVars, appVars>>

\* Lines 115-117: the delay has elapsed; attempts++; continue
BackoffElapsed ==
    /\ pc = "backoff"
    /\ log' = Append(log, Attempt("status"))
    /\ LoopHead(attempts + 1, status, resp)
    /\ timers' = Armed(timers, attempts + 1)
    /\ UNCHANGED <<resizeVars, waits>>
    /\ UNCHANGED <<proxyVars, appVars>>

\* Lines 160-163: the inner catch goes on to the next attempt without a
\* delay
WaitsAfterCatch(err, kind) ==
    IF err.name # "AbortError" /\ ~Rethrows(attempts, err.message)
    THEN Append(waits, [attempt |-> attempts, after |-> kind, ms |-> 0])
    ELSE waits

\* Lines 120-125 and the inner catch: the body of an error response
BodyErrorRead(body) ==
    /\ pc = "bodyError"
    /\ log' = Append(log, Attempt("status"))
    /\ LET out == ReadErrorBody(status, body)
       IN  /\ InnerCatch(Err(out.name, out.message), status, body)
           /\ waits' = WaitsAfterCatch(Err(out.name, out.message), "status")
           /\ timers' = TimersAfterCatch(Err(out.name, out.message))
    /\ UNCHANGED resizeVars
    /\ UNCHANGED <<proxyVars, appVars>>

\* Lines 127-150 and the inner catch: the body of a 2xx response
BodyOkRead(body) ==
    /\ pc = "bodyOk"
    /\ log' = Append(log, Attempt("envelope"))
    /\ LET out == ReadEnvelope(body)
       IN  IF out.t = "return"
           THEN Resolves(out.value, status, body) /\ UNCHANGED <<waits, timers>>
           ELSE /\ InnerCatch(Err(out.name, out.message), status, body)
                /\ waits' = WaitsAfterCatch(Err(out.name, out.message), "envelope")
                /\ timers' = TimersAfterCatch(Err(out.name, out.message))
    /\ UNCHANGED resizeVars
    /\ UNCHANGED <<proxyVars, appVars>>

\* fetch rejects for a transport failure
FetchRejects(err) ==
    /\ pc = "fetching"
    /\ log' = Append(log, Attempt("transport"))
    /\ InnerCatch(err, 0, NoBody)
    /\ waits' = WaitsAfterCatch(err, "transport")
    /\ timers' = TimersAfterCatch(err)
    /\ UNCHANGED resizeVars
    /\ UNCHANGED <<proxyVars, appVars>>

\* Line 84: the abort timer fires, controller.abort() rejects the pending
\* fetch with an AbortError.
AbortTimerFires ==
    /\ abortTimer
    /\ pc = "fetching"
    /\ log' = Append(log, Attempt("abort"))
    /\ InnerCatch(Err("AbortError", <<"signal is aborted without reason">>), 0, NoBody)
    /\ timers' = Cleared(timers)
    /\ UNCHANGED <<resizeVars, waits>>
    /\ UNCHANGED <<proxyVars, appVars>>

-----------------------------------------------------------------------------
(* The proxy: functions/api/generate.ts, and its variant with an origin     *)
(* allow-list and an internal key.                                          *)

allowedOrigins == <<"http://localhost:5173", "http://localhost:3000",
                    "https://yourapp.com">>
IsAllowedOrigin_Any(origin) == TRUE
IsAllowedOrigin(origin) == \E i \in 1..Len(allowedOrigins) : allowedOrigins[i] = origin

MissingFieldsMsg == <<"Missing required fields: imageBase64, prompt">>
InvalidJsonMsg == <<"Invalid JSON body">>
TooLargeMsg == <<"Image payload too large (max 5MB)">>
InternalErrorMsg == <<"Internal Server Error">>
DestructureNullMsg == <<"Cannot destructure property 'imageBase64' of 'body' as it is null.">>
UpstreamNullMsg == <<"Cannot read properties of null (reading 'error')">>
DefaultModel == <<"gemini-2.5-flash-image">>

\* Environment bindings; "" is an unset binding.
Envs == [GEMINI_API_KEY : {"", "key-G"}, API_KEY : {"", "key-A"},
         INTERNAL_API_KEY : {"", "secret"}]

Deployments == {"plain", "guarded"}

\* The image payload is known to the proxy by its length only.
NoImage == [def |-> FALSE, len |-> 0]
ImageVals == {NoImage} \cup { [def |-> TRUE, len |-> n]
                               : n \in {0, 1, MaxImageLength, MaxImageLength + 1} }
PromptVals == {Undefined, Str(<<>>), Str(<<"blue tile">>)}
ModelVals == {Undefined, Str(<<"gemini-x">>)}
MimeVals == {Undefined, Str(<<"image/png">>)}

\* request.json(): not JSON, the JSON value null, a JSON value that is not
\* an object (a number, a string, an array), or an object.
RequestBodies ==
    { [kind |-> k, imageBase64 |-> NoImage, prompt |-> Undefined,
       model |-> Undefined, mimeType |-> Undefined]
        : k \in {"unparsable", "null", "scalar"} }
    \cup { [kind |-> "object", imageBase64 |-> i, prompt |-> q, model |-> m,
            mimeType |-> t]
             : i \in ImageVals, q \in PromptVals, m \in ModelVals, t \in MimeVals }

Origins == {"", "http://localhost:5173", "https://yourapp.com", "https://evil.example"}
ApiKeyHeaders == {"", "secret", "guess"}

Requests == [origin : Origins, xApiKey : ApiKeyHeaders, body : RequestBodies]

\* What the upstream provider answers
UpstreamStatuses == {200, 429, 503}
UpstreamBodies ==
    { [kind |-> k, hasError |-> FALSE, code |-> 0, message |-> Undefined]
        : k \in {"unparsable", "null", "object"} }
    \cup { [kind |-> "object", hasError |-> TRUE, code |-> c, message |-> m]
             : c \in {0, 429}, m \in {Undefined, Str(<<"Resource exhausted">>)} }

NoData == [kind |-> "none"]
NoResponse == [status |-> 0, error |-> Undefined, details |-> Undefined,
               data |-> NoData, acao |-> ""]
NoUpstreamAnswer == [status |-> 0,
                     body |-> [kind |-> "none", hasError |-> FALSE, code |-> 0,
                               message |-> Undefined]]
NoUpstreamReq == [model |-> <<>>, key |-> "", mime |-> <<>>, dataLen |-> 0, text |-> <<>>]

ErrorResponse(st, error, details, acao) ==
    [status |-> st, error |-> Str(error), details |-> details, data |-> NoData,
     acao |-> acao]

\* env.GEMINI_API_KEY || env.API_KEY
UpstreamCredential(e) == IF e.GEMINI_API_KEY # "" THEN e.GEMINI_API_KEY ELSE e.API_KEY

\* env.INTERNAL_API_KEY && apiKey !== env.INTERNAL_API_KEY
KeyRejected_EvenUnset(req, e) == req.xApiKey # e.INTERNAL_API_KEY
KeyRejected(req, e) == e.INTERNAL_API_KEY # "" /\ req.xApiKey # e.INTERNAL_API_KEY

\* imageBase64.length > 7000000
TooLarge_GreaterEqual(body) == body.imageBase64.len >= MaxImageLength
TooLarge(body) == body.imageBase64.len > MaxImageLength

\* !imageBase64 || !prompt
MissingFields(body) ==
    ~(body.imageBase64.def /\ body.imageBase64.len > 0) \/ ~Truthy(body.prompt)

\* getCorsHeaders(requestOrigin)['Access-Control-Allow-Origin']
getCorsHeaders(origin) ==
    IF origin # "" /\ IsAllowedOrigin(origin) THEN origin ELSE allowedOrigins[1]

Respond(r) == [t |-> "respond", response |-> r, forward |-> NoUpstreamReq, readsKey |-> TRUE]
Forward(f) == [t |-> "forward", response |-> NoResponse, forward |-> f, readsKey |-> TRUE]

\* generate.ts lines 48-109, and lines 139-148 for what is thrown on the way:
\* the checks in the order the handler makes them.
PostChecks(req, e) ==
    IF UpstreamCredential(e) = ""
    THEN Respond(ErrorResponse(500, <<"Server configuration error">>,
                 Str(<<"GEMINI_API_KEY", " not found in environment.">>), "*"))
    ELSE IF req.body.kind = "unparsable"
    THEN Respond(ErrorResponse(400, InvalidJsonMsg, Undefined, "*"))
    ELSE IF req.body.kind = "null"
    THEN Respond(ErrorResponse(500, InternalErrorMsg, Str(DestructureNullMsg), "*"))
    ELSE IF MissingFields(req.body)
    THEN Respond(ErrorResponse(400, MissingFieldsMsg, Undefined, "*"))
    ELSE IF TooLarge(req.body)
    THEN Respond(ErrorResponse(413, TooLargeMsg, Undefined, "*"))
    ELSE Forward([model |-> IF Truthy(req.body.model) THEN req.body.model.val
                            ELSE DefaultModel,
                  key |-> UpstreamCredential(e),
                  mime |-> <<"image/jpeg">>,
                  dataLen |-> req.body.imageBase64.len,
                  text |-> req.body.prompt.val])

\* The variant's lines 192-273 and 293-299.
GuardedPostChecks(req, e) ==
    IF req.origin = "" \/ ~IsAllowedOrigin(req.origin)
    THEN [t |-> "respond",
          response |-> ErrorResponse(403, <<"Forbidden: Invalid origin">>, Undefined, ""),
          forward |-> NoUpstreamReq, readsKey |-> FALSE]
    ELSE IF KeyRejected(req, e)
    THEN [t |-> "respond",
          response |-> ErrorResponse(401, <<"Unauthorized">>, Undefined,
                                     getCorsHeaders(req.origin)),
          forward |-> NoUpstreamReq, readsKey |-> FALSE]
    ELSE IF UpstreamCredential(e) = ""
    THEN Respond(ErrorResponse(500,
                 <<"Server configuration error: ", "GEMINI_API_KEY", " not found">>,
                 Undefined, getCorsHeaders(req.origin)))
    ELSE IF req.body.kind = "unparsable"
    THEN Respond(ErrorResponse(400, InvalidJsonMsg, Undefined, getCorsHeaders(req.origin)))
    ELSE IF req.body.kind = "null"
    THEN Respond(ErrorResponse(500, InternalErrorMsg, Str(DestructureNullMsg),
                               getCorsHeaders(req.origin)))
    ELSE IF MissingFields(req.body)
    THEN Respond(ErrorResponse(400, MissingFieldsMsg, Undefined, getCorsHeaders(req.origin)))
    ELSE IF TooLarge(req.body)
    THEN Respond(ErrorResponse(413, TooLargeMsg, Undefined, getCorsHeaders(req.origin)))
    ELSE Forward([model |-> IF Truthy(req.body.model) THEN req.body.model.val
                            ELSE DefaultModel,
                  key |-> UpstreamCredential(e),
                  mime |-> IF Truthy(req.body.mimeType) THEN req.body.mimeType.val
                           ELSE <<"image/jpeg">>,
                  dataLen |-> req.body.imageBase64.len,
                  text |-> req.body.prompt.val])

\* the Access-Control-Allow-Origin of the responses made after the checks
CorsOrigin == IF deployment = "plain" THEN "*" ELSE getCorsHeaders(request.origin)

\* generate.ts lines 118-148 (the variant's 275-299): the upstream answer is
\* parsed and relayed.
Relay(st, body) ==
    IF body.kind = "unparsable"
    THEN ErrorResponse(500, InternalErrorMsg, Str(JsonSyntaxMsg), CorsOrigin)
    ELSE IF st \notin OkStatuses
    THEN IF body.kind = "null"
         THEN ErrorResponse(500, InternalErrorMsg, Str(UpstreamNullMsg), CorsOrigin)
         ELSE LET errorMessage == IF body.hasError /\ Truthy(body.message)
                                  THEN body.message.val
                                  ELSE <<"Unknown upstream error">>
                  errorCode == IF body.hasError /\ body.code # 0
                               THEN ToString(body.code) ELSE ToString(st)
              IN  IF deployment = "plain"
                  THEN ErrorResponse(st, <<"Failed to generate content from AI provider">>,
                                     Str(<<errorCode, ": ">> \o errorMessage), CorsOrigin)
                  ELSE ErrorResponse(st, <<"Failed to generate content: ", errorCode, " ">>
                                           \o errorMessage, Undefined, CorsOrigin)
    ELSE [status |-> 200, error |-> Undefined, details |-> Undefined,
          data |-> body, acao |-> CorsOrigin]

ProxyInit ==
    /\ deployment \in Deployments
    /\ env \in Envs
    /\ ppc = "idle"
    /\ method = "none"
    /\ request = [origin |-> "", xApiKey |-> "",
                  body |-> [kind |-> "none", imageBase64 |-> NoImage, prompt |-> Undefined,
                            model |-> Undefined, mimeType |-> Undefined]]
    /\ credentialRead = FALSE
    /\ upstreamCalls = 0
    /\ upstreamReq = NoUpstreamReq
    /\ upstreamAnswer = NoUpstreamAnswer
    /\ response = NoResponse

\* The handler runs from the request to its first await of the upstream
\* fetch, or to the Response it returns before that.
HandlePost(req, out) ==
    /\ ppc = "idle"
    /\ method' = "POST"
    /\ request' = req
    /\ credentialRead' = out.readsKey
    /\ UNCHANGED upstreamAnswer
    /\ IF out.t = "respond"
       THEN /\ ppc' = "done"
            /\ response' = out.response
            /\ UNCHANGED <<upstreamCalls, upstreamReq>>
       ELSE /\ ppc' = "upstream"
            /\ upstreamCalls' = upstreamCalls + 1
            /\ upstreamReq' = out.forward
            /\ UNCHANGED response
    /\ UNCHANGED <<deployment, env, clientVars, appVars>>

\* generate.ts lines 39-116
onRequestPost(req) ==
    /\ deployment = "plain"
    /\ HandlePost(req, PostChecks(req, env))

\* the variant's lines 192-273
onRequestPostGuarded(req) ==
    /\ deployment = "guarded"
    /\ HandlePost(req, GuardedPostChecks(req, env))

\* The preflight answers: generate.ts lines 29-37, the variant's 185-190.
OptionsResponse(acao) ==
    [status |-> 200, error |-> Undefined, details |-> Undefined, data |-> NoData,
     acao |-> acao]

HandleOptions(origin, acao) ==
    /\ ppc = "idle"
    /\ ppc' = "done"
    /\ method' = "OPTIONS"
    /\ request' = [request EXCEPT !.origin = origin]
    /\ response' = OptionsResponse(acao)
    /\ UNCHANGED <<deployment, env, credentialRead, upstreamCalls, upstreamReq,
                   upstreamAnswer, clientVars, appVars>>

onRequestOptions(origin) ==
    /\ deployment = "plain"
    /\ HandleOptions(origin, "*")

onRequestOptionsGuarded(origin) ==
    /\ deployment = "guarded"
    /\ HandleOptions(origin, getCorsHeaders(origin))

\* The upstream fetch resolves and its body is read.
UpstreamResponds(st, body) ==
    /\ ppc = "upstream"
    /\ ppc' = "done"
    /\ upstreamAnswer' = [status |-> st, body |-> body]
    /\ response' = Relay(st, body)
    /\ UNCHANGED <<deployment, env, method, request, credentialRead, upstreamCalls,
                   upstreamReq, clientVars, appVars>>

\* a handler that fetches again when the upstream fetch rejects
UpstreamFails_Retries(err) ==
    /\ ppc = "upstream"
    /\ upstreamCalls < 2
    /\ upstreamCalls' = upstreamCalls + 1
    /\ UNCHANGED <<deployment, env, ppc, method, request, credentialRead,
                   upstreamReq, upstreamAnswer, response, clientVars, appVars>>

\* The upstream fetch rejects: the outer catch answers 500.
UpstreamFails(err) ==
    /\ ppc = "upstream"
    /\ ppc' = "done"
    /\ response' = ErrorResponse(500, InternalErrorMsg, Str(err.message), CorsOrigin)
    /\ UNCHANGED <<deployment, env, method, request, credentialRead, upstreamCalls,
                   upstreamReq, upstreamAnswer, clientVars, appVars>>

ProxyNext ==
    \/ \E req \in Requests : onRequestPost(req)
    \/ \E req \in Requests : onRequestPostGuarded(req)
    \/ \E origin \in Origins : onRequestOptions(origin)
    \/ \E origin \in Origins : onRequestOptionsGuarded(origin)
    \/ \E st \in UpstreamStatuses, body \in UpstreamBodies : UpstreamResponds(st, body)
    \/ \E err \in TransportErrors : UpstreamFails(err)

-----------------------------------------------------------------------------
(* The App: App.tsx, its reducer and the handlers around a generation      *)
(* request.  An image is known by its name; a generated image by the name  *)
(* of the image it was generated from.  null is "".                         *)

Images == {"imgA", "imgB"}
ErrorMessages == {"High traffic volume. Please wait 1 minute and try again.",
                  "Failed to generate image. Please try again or use a different angle."}
ConfigErrorMsg == "App configuration error. Please refresh."
NoPromptMsg == "Please select a palette or enter a custom description."

initialState ==
    [appState |-> "IDLE", capturedImage |-> "", processedImage |-> "",
     selectedStyle |-> FALSE, customPrompt |-> FALSE, errorMsg |-> ""]

NoPayload == [image |-> "", flag |-> FALSE, text |-> ""]
SetAppState(a) == [type |-> "SET_APP_STATE", payload |-> [NoPayload EXCEPT !.text = a]]
SetError(msg) == [type |-> "SET_ERROR", payload |-> [NoPayload EXCEPT !.text = msg]]
CaptureImage(img) == [type |-> "CAPTURE_IMAGE", payload |-> [NoPayload EXCEPT !.image = img]]
SetProcessedImage(img) ==
    [type |-> "SET_PROCESSED_IMAGE", payload |-> [NoPayload EXCEPT !.image = img]]
SetStyle == [type |-> "SET_STYLE", payload |-> [NoPayload EXCEPT !.flag = TRUE]]
SetCustomPrompt(nonEmpty) ==
    [type |-> "SET_CUSTOM_PROMPT", payload |-> [NoPayload EXCEPT !.flag = nonEmpty]]
Reset == [type |-> "RESET", payload |-> NoPayload]

\* Lines 77-117
appReducer(st, action) ==
    CASE action.type = "SET_APP_STATE" ->
            [st EXCEPT !.appState = action.payload.text]
      [] action.type = "CAPTURE_IMAGE" ->
            [st EXCEPT !.appState = "PREVIEW",
                       !.capturedImage = action.payload.image,
                       !.processedImage = "",
                       !.selectedStyle = FALSE]
      [] action.type = "SET_PROCESSED_IMAGE" ->
            [st EXCEPT !.processedImage = action.payload.image, !.appState = "RESULT"]
      [] action.type = "SET_STYLE" ->
            [st EXCEPT !.selectedStyle = action.payload.flag,
                       !.customPrompt = FALSE,
                       !.errorMsg = ""]
      [] action.type = "SET_CUSTOM_PROMPT" ->
            [st EXCEPT !.customPrompt = action.payload.flag,
                       !.selectedStyle = IF action.payload.flag THEN FALSE
                                         ELSE st.selectedStyle]
      [] action.type = "SET_ERROR" ->
            [st EXCEPT !.errorMsg = action.payload.text, !.appState = "PREVIEW"]
      [] action.type = "RESET" -> initialState
      [] OTHER -> st

AppInit ==
    /\ state = initialState
    /\ viteKey \in BOOLEAN
    /\ pending = {}
    /\ started = 0
    /\ lastEvent = "none"

\* a click that dispatches one action and starts nothing
UserDispatch(action) ==
    /\ state' = appReducer(state, action)
    /\ lastEvent' = "user"
    /\ UNCHANGED <<viteKey, pending, started, clientVars, proxyVars>>

\* renderIdle: line 367, and the file input with handleFileUpload (130-139)
OpenCamera ==
    /\ state.appState = "IDLE"
    /\ UserDispatch(SetAppState("CAPTURE"))

handleFileUpload(img) ==
    /\ state.appState = "IDLE"
    /\ UserDispatch(CaptureImage(img))

\* renderCapture: lines 402-408
CameraCapture(img) ==
    /\ state.appState = "CAPTURE"
    /\ UserDispatch(CaptureImage(img))

CameraCancel ==
    /\ state.appState = "CAPTURE"
    /\ UserDispatch(SetAppState("IDLE"))

\* renderPreview: the back arrow (414), a palette (469), the prompt field
\* (503), Close on the error overlay (449)
PreviewBack ==
    /\ state.appState = "PREVIEW"
    /\ UserDispatch(Reset)

SelectStyle ==
    /\ state.appState = "PREVIEW"
    /\ UserDispatch(SetStyle)

TypePrompt(nonEmpty) ==
    /\ state.appState = "PREVIEW"
    /\ UserDispatch(SetCustomPrompt(nonEmpty))

CloseError ==
    /\ state.appState = "PREVIEW"
    /\ state.errorMsg # ""
    /\ UserDispatch(SetError(""))

\* Lines 145-168: generatePreview up to its await, run by Generate Render
\* (510-511, disabled without a style or a prompt) or by Retry (450).  The
\* two dispatches of lines 166-167 are reduced one after the other.
generatePreview ==
    /\ state.appState = "PREVIEW"
    /\ state.selectedStyle \/ state.customPrompt \/ state.errorMsg # ""
    /\ state.capturedImage # ""
    /\ IF ~viteKey
       THEN /\ state' = appReducer(state, SetError(ConfigErrorMsg))
            /\ lastEvent' = "user"
            /\ UNCHANGED <<pending, started>>
       ELSE IF ~state.customPrompt /\ ~state.selectedStyle
       THEN /\ state' = appReducer(state, SetError(NoPromptMsg))
            /\ lastEvent' = "user"
            /\ UNCHANGED <<pending, started>>
       ELSE /\ started < MaxGenerations
            /\ state' = appReducer(appReducer(state, SetAppState("PROCESSING")),
                                   SetError(""))
            /\ started' = started + 1
            /\ pending' = pending \cup {[id |-> started + 1,
                                         image |-> state.capturedImage]}
            /\ lastEvent' = "generate"
    /\ UNCHANGED <<viteKey, clientVars, proxyVars>>

\* Line 169: the awaited call resolved
GenerationResolves(r) ==
    /\ r \in pending
    /\ pending' = pending \ {r}
    /\ state' = appReducer(state, SetProcessedImage(r.image))
    /\ lastEvent' = "resolved"
    /\ UNCHANGED <<viteKey, started, clientVars, proxyVars>>

\* Lines 170-173: the awaited call rejected
GenerationRejects(r, msg) ==
    /\ r \in pending
    /\ pending' = pending \ {r}
    /\ state' = appReducer(state, SetError(msg))
    /\ lastEvent' = "rejected"
    /\ UNCHANGED <<viteKey, started, clientVars, proxyVars>>

\* renderProcessing: Cancel (line 541).  The screen is drawn only while
\* appState is PROCESSING.
CancelProcessing ==
    /\ state.appState = "PROCESSING"
    /\ UserDispatch(SetAppState("PREVIEW"))

\* renderResult: back and Try Again (701, 743), New Photo and Start Over
\* (744, 793)
ResultBack ==
    /\ state.appState = "RESULT"
    /\ UserDispatch(SetAppState("PREVIEW"))

ResultReset ==
    /\ state.appState = "RESULT"
    /\ UserDispatch(Reset)

AppNext ==
    \/ OpenCamera
    \/ \E img \in Images : handleFileUpload(img)
    \/ \E img \in Images : CameraCapture(img)
    \/ CameraCancel
    \/ PreviewBack
    \/ SelectStyle
    \/ \E nonEmpty \in BOOLEAN : TypePrompt(nonEmpty)
    \/ CloseError
    \/ generatePreview
    \/ \E r \in pending : GenerationResolves(r)
    \/ \E r \in pending, msg \in ErrorMessages : GenerationRejects(r, msg)
    \/ ResultBack
    \/ ResultReset

-----------------------------------------------------------------------------
(* Specifications *)

\* the proxy while the client is studied alone
\* the one image size of the runs that study the request loop
LoopImageSize == [width |-> 3000, height |-> 1536]

\* the App while the call or the proxy is studied
AppAtRest == AppInit /\ viteKey

ProxyAtRest ==
    /\ ProxyInit
    /\ deployment = "plain"
    /\ env = [GEMINI_API_KEY |-> "key-G", API_KEY |-> "", INTERNAL_API_KEY |-> ""]

\* the client while the proxy is studied alone
ClientAtRest ==
    /\ ClientInit
    /\ base64Image = [mime |-> "image/png", payload |-> <<"SRC">>,
                      len |-> LoopImageLength]
    /\ imgSize = LoopImageSize

Init ==
    /\ ClientInit
    /\ imgSize = LoopImageSize
    /\ base64Image.len = LoopImageLength
    /\ ProxyAtRest
    /\ AppAtRest

Next ==
    \/ generateFlooringVisualization
    \/ ResizeTimeout
    \/ \E o \in {"jpeg", "noContext", "throws"} : ImgOnload(o)
    \/ ImgOnerror
    \/ \E st \in OkStatuses \cup ErrorStatuses \cup {RateLimited} : FetchResolves(st)
    \/ Body429Read
    \/ BackoffElapsed
    \/ \E body \in ErrorBodies : BodyErrorRead(body)
    \/ \E body \in OkBodies : BodyOkRead(body)
    \/ \E err \in TransportErrors : FetchRejects(err)
    \/ AbortTimerFires

Spec == Init /\ [][Next]_vars

InitProxy == ClientAtRest /\ ProxyInit /\ AppAtRest

\* resizeImage alone, over every image size, up to the first request
InitResize ==
    /\ ClientInit
    /\ base64Image.len = LoopImageLength
    /\ ProxyAtRest
    /\ AppAtRest

ResizeNext ==
    \/ generateFlooringVisualization
    \/ ResizeTimeout
    \/ \E o \in {"jpeg", "noContext", "throws"} : ImgOnload(o)
    \/ ImgOnerror

ResizeSpec == InitResize /\ [][ResizeNext]_vars

\* The client's first request handed to the proxy: geminiService.ts lines
\* 88-106 build it, the browser adds the Origin header.
MODEL_NAME == <<"gemini-2.5-flash-image">>

ClientRequest(origin) ==
    [origin |-> origin, xApiKey |-> "",
     body |-> [kind |-> "object",
               imageBase64 |-> [def |-> TRUE, len |-> StringLength(cleanBase64)],
               prompt |-> Str(<<"Task: Floor Replacement.">>),
               model |-> Str(MODEL_NAME),
               mimeType |-> Str(<<mimeType>>)]]

Delivered(origin) ==
    /\ pc = "fetching"
    /\ \/ onRequestPost(ClientRequest(origin))
       \/ onRequestPostGuarded(ClientRequest(origin))

EndToEndSizes == {LoopImageSize, [width |-> 512, height |-> 512],
                  [width |-> 1, height |-> 2000]}

InitEndToEnd ==
    /\ ClientInit
    /\ imgSize \in EndToEndSizes
    /\ ProxyInit
    /\ env.INTERNAL_API_KEY = ""
    /\ env.API_KEY = ""
    /\ AppAtRest

EndToEndNext ==
    \/ generateFlooringVisualization
    \/ ResizeTimeout
    \/ \E o \in {"jpeg", "noContext", "throws"} : ImgOnload(o)
    \/ ImgOnerror
    \/ \E origin \in Origins : Delivered(origin)
    \/ \E st \in UpstreamStatuses, body \in UpstreamBodies : UpstreamResponds(st, body)
    \/ \E err \in TransportErrors : UpstreamFails(err)

EndToEndSpec == InitEndToEnd /\ [][EndToEndNext]_vars

\* the App alone
InitApp == ClientAtRest /\ ProxyAtRest /\ AppInit

AppSpec == InitApp /\ [][AppNext]_vars

ProxySpec == InitProxy /\ [][ProxyNext]_vars

\* Timers fire; the decoder and the proxy owe nothing.
FairSpec ==
    /\ Spec
    /\ WF_vars(generateFlooringVisualization)
    /\ WF_vars(ResizeTimeout)
    /\ WF_vars(AbortTimerFires)
    /\ WF_vars(BackoffElapsed)

-----------------------------------------------------------------------------
(* Properties of the client *)

Settled == pc \in {"resolved", "rejected"}
Rejected(reason) == pc = "rejected" /\ result = [kind |-> "rejected", value |-> reason]

AllRateLimited == \A i \in 1..Len(log) : log[i].status = 429

\* C1: when the proxy answers 429 on three consecutive attempts of one call,
\* the call rejects with exactly "Service busy. Please try again in a
\* moment." and exactly 3 requests have been issued.
C1_ServiceBusyAfterThree429 ==
    (Len(log) = 3 /\ AllRateLimited)
        => (Rejected(<<"Service busy. Please try again in a moment.">>) /\ requests = 3)

C1_Witness == Len(log) = 3 /\ AllRateLimited /\ pc = "rejected"

\* C2: whatever the outcomes of the attempts, one call issues at most 3
\* requests to the proxy.
C2_AtMostThreeRequests == requests <= 3

C2_Witness == requests = 3 /\ pc = "fetching" /\ log[1].kind = "transport"

\* C3: a further request is issued only if the attempt before it received
\* HTTP 429; every other failure of an attempt (non-429 error status, text
\* refusal, empty envelope, timeout) ends the call without another request,
\* whatever the text of its message.
C3_RetryOnlyAfter429 ==
    \A i \in 1..Len(log) :
        (i < requests /\ log[i].kind \in {"status", "envelope", "abort"})
            => log[i].status = 429

\* a part carrying non-empty inline image data, under either spelling
HasImageData(part) ==
    \/ part.inlineData.def /\ part.inlineData.val # <<>>
    \/ part.inline_data.def /\ part.inline_data.val # <<>>
ImageDataOf(part) ==
    IF part.inlineData.def /\ part.inlineData.val # <<>>
    THEN part.inlineData.val ELSE part.inline_data.val

OkEnvelopeRead == status \in OkStatuses /\ resp.kind = "parts"

\* C4: for every 2xx response whose first candidate's parts contain a part
\* with non-empty inline image data, the call resolves to
\* "data:image/png;base64," followed by the data of the lowest-index such
\* part, whatever text parts precede or follow it.
C4_FirstImageWins ==
    (OkEnvelopeRead /\ \E i \in 1..Len(resp.parts) : HasImageData(resp.parts[i]))
        => \E i \in 1..Len(resp.parts) :
              /\ HasImageData(resp.parts[i])
              /\ \A j \in 1..(i - 1) : ~HasImageData(resp.parts[j])
              /\ pc = "resolved"
              /\ result = [kind |-> "resolved",
                           value |-> <<"data:image/png;base64,">> \o ImageDataOf(resp.parts[i])]

C4_Witness ==
    /\ OkEnvelopeRead
    /\ Len(resp.parts) = 2
    /\ resp.parts[1].text.def /\ resp.parts[1].text.val # <<>>
    /\ HasImageData(resp.parts[2])
    /\ pc = "resolved"

NoImageData == \A i \in 1..Len(resp.parts) : ~HasImageData(resp.parts[i])

NonEmptyText(part) == part.text.def /\ part.text.val # <<>>
HasMarker(m) == \E k \in 1..Len(m) : m[k] \in {"quota", "429"}

C6_EmptyResponseReason ==
    ( /\ Settled
      /\ status \in OkStatuses
      /\ \/ resp.kind \in {"unparsable", "noCandidates", "emptyCandidates",
                           "noContent", "noParts"}
         \/ resp.kind = "parts" /\ resp.parts = <<>> )
        => Rejected(<<"The model returned an empty response.">>)

\* C7: the reason of a rejection is a function of the underlying failure
\* message m: "High traffic volume. Please wait 1 minute and try again." if
\* m contains "quota" or "429", otherwise m unchanged, and "Failed to
\* process image." if there is no message.
C7_ReasonIsTranslation ==
    pc = "rejected" =>
        /\ underlying.def
        /\ result.kind = "rejected"
        /\ LET m == underlying.val
           IN  result.value =
                 IF \E k \in 1..Len(m) : m[k] = "quota" \/ m[k] = "429"
                 THEN <<"High traffic volume. Please wait 1 minute and try again.">>
                 ELSE IF m = <<>> THEN <<"Failed to process image.">> ELSE m

C7_Witness ==
    /\ pc = "rejected"
    /\ \E k \in 1..Len(underlying.val) : underlying.val[k] = "quota"
    /\ ~\E k \in 1..Len(underlying.val) : underlying.val[k] = "429"
    /\ result.value # underlying.val

\* C8: every call eventually settles, resolving with an image or rejecting
\* with a non-empty message, for every behaviour of the decoder and of the
\* proxy, assuming timers fire.
C8_EventuallySettles == <>(Settled /\ result.value # <<>>)

LastAttempt == log[Len(log)]

\* C9: when the abort timer fires while a request is in flight, the request
\* is aborted and the call rejects with "Request timed out. The server took
\* too long to respond."; no further attempt is started, whatever the
\* attempt index.
C9_AbortEndsCall ==
    (Len(log) > 0 /\ LastAttempt.kind = "abort")
        => /\ Rejected(<<"Request timed out. The server took too long to respond.">>)
           /\ ~abortTimer
           /\ requests = Len(log)

C9_Witness == Len(log) = 1 /\ LastAttempt.kind = "abort" /\ pc = "rejected"

-----------------------------------------------------------------------------
(* Properties of the proxy *)

\* the request gets as far as the parsing of its body: the upstream
\* credential is configured and, where they are made, the origin and
\* internal-key checks pass
ReachesBodyChecks ==
    /\ method = "POST"
    /\ env.GEMINI_API_KEY # "" \/ env.API_KEY # ""
    /\ deployment = "guarded" =>
          /\ \E i \in 1..Len(allowedOrigins) : allowedOrigins[i] = request.origin
          /\ env.INTERNAL_API_KEY = "" \/ request.xApiKey = env.INTERNAL_API_KEY

LacksRequiredField(body) ==
    \/ body.kind \in {"null", "scalar"}
    \/ /\ body.kind = "object"
       /\ \/ ~body.imageBase64.def \/ body.imageBase64.len = 0
          \/ ~body.prompt.def \/ body.prompt.val = <<>>

\* C10: for every POST whose body is valid JSON (any JSON value) lacking a
\* non-empty imageBase64 or a non-empty prompt, the response is 400 with
\* error "Missing required fields: imageBase64, prompt"; for every body that
\* is not valid JSON the response is 400; in both cases no upstream call is
\* made.
C10_InvalidBodyIs400 ==
    ReachesBodyChecks =>
        /\ LacksRequiredField(request.body) =>
              /\ ppc = "done"
              /\ response.status = 400
              /\ response.error = Str(<<"Missing required fields: imageBase64, prompt">>)
              /\ upstreamCalls = 0
        /\ request.body.kind = "unparsable" =>
              /\ ppc = "done"
              /\ response.status = 400
              /\ upstreamCalls = 0

\* a POST that passes every check before the size check
OtherwiseValidPost ==
    /\ ReachesBodyChecks
    /\ request.body.kind = "object"
    /\ ~LacksRequiredField(request.body)

\* C11: for an otherwise valid POST the proxy answers 413, and forwards
\* nothing, exactly when imageBase64.length > 7,000,000: length 7,000,000 is
\* forwarded upstream, length 7,000,001 is rejected.
C11_TooLargeIffOverCeiling ==
    OtherwiseValidPost =>
        IF request.body.imageBase64.len > 7000000
        THEN ppc = "done" /\ response.status = 413 /\ upstreamCalls = 0
        ELSE /\ upstreamCalls = 1
             /\ upstreamReq.dataLen = request.body.imageBase64.len
             /\ ~(ppc = "done" /\ upstreamAnswer = NoUpstreamAnswer
                   /\ response.status = 413)

C11_Witness ==
    /\ OtherwiseValidPost
    /\ request.body.imageBase64.len = 7000000
    /\ upstreamCalls = 1

\* the request's Origin is one of the three allowed origins
OriginAllowed ==
    request.origin \in {"http://localhost:5173", "http://localhost:3000",
                        "https://yourapp.com"}

RejectedAsForbidden ==
    /\ ppc = "done"
    /\ response.status = 403
    /\ ~credentialRead
    /\ upstreamCalls = 0

RejectedAsUnauthorized ==
    /\ ppc = "done"
    /\ response.status = 401
    /\ upstreamCalls = 0

KeyMismatch == env.INTERNAL_API_KEY # "" /\ request.xApiKey # env.INTERNAL_API_KEY

\* what the handler of this deployment makes of a request
ChecksOf(req) ==
    IF deployment = "plain" THEN PostChecks(req, env) ELSE GuardedPostChecks(req, env)

\* the header has no influence: the handler went the way it goes for the
\* same request without the header
HeaderIgnored ==
    LET out == ChecksOf([request EXCEPT !.xApiKey = ""])
    IN  IF out.t = "respond"
        THEN ppc = "done" /\ response = out.response /\ upstreamCalls = 0
        ELSE upstreamCalls = 1 /\ upstreamReq = out.forward

\* C13 as stated: when INTERNAL_API_KEY is configured every POST whose
\* X-API-Key is absent or different is answered 401 and makes no upstream
\* call; when it is not configured the header has no influence.
C13_UnauthorizedAlways ==
    method = "POST" =>
        /\ KeyMismatch => RejectedAsUnauthorized
        /\ env.INTERNAL_API_KEY = "" => HeaderIgnored

\* C13 amended: in the handler that has the shared-secret check, a POST
\* from an allowed origin with a missing or wrong X-API-Key is answered 401
\* when INTERNAL_API_KEY is configured (from another origin it is answered
\* 403), never reaching upstream; when it is not configured the header has
\* no influence.  The handler without the check never looks at the header.
C13_UnauthorizedWhenGuarded ==
    method = "POST" =>
        /\ (deployment = "guarded" /\ KeyMismatch) =>
              /\ upstreamCalls = 0
              /\ IF OriginAllowed THEN RejectedAsUnauthorized
                 ELSE ppc = "done" /\ response.status = 403
        /\ (deployment = "plain" \/ env.INTERNAL_API_KEY = "") => HeaderIgnored

C13_Witness ==
    /\ method = "POST"
    /\ deployment = "guarded"
    /\ OriginAllowed
    /\ env.INTERNAL_API_KEY = "secret"
    /\ request.xApiKey = "guess"
    /\ request.body.kind = "object"
    /\ ~LacksRequiredField(request.body)
    /\ RejectedAsUnauthorized

C13_WitnessUnset ==
    /\ method = "POST"
    /\ deployment = "guarded"
    /\ env.INTERNAL_API_KEY = ""
    /\ request.xApiKey = "guess"
    /\ upstreamCalls = 1

\* the tokens of a response body
BodyTokens(r) ==
    (IF r.error.def THEN { r.error.val[i] : i \in 1..Len(r.error.val) } ELSE {})
    \cup (IF r.details.def THEN { r.details.val[i] : i \in 1..Len(r.details.val) }
          ELSE {})

ConfigKeyNames == {"GEMINI_API_KEY", "API_KEY", "INTERNAL_API_KEY"}

\* C14: no response body contains the upstream credential value, and when
\* the credential is absent the 500 response carries a generic
\* configuration-error message that does not name the missing key.
C14_NoCredentialDetails ==
    (method = "POST" /\ ppc = "done") =>
        /\ UpstreamCredential(env) # "" => UpstreamCredential(env) \notin BodyTokens(response)
        /\ (UpstreamCredential(env) = "" /\ response.status = 500) =>
              BodyTokens(response) \cap ConfigKeyNames = {}

\* C15: when the upstream provider answers with a non-success status s, the
\* proxy answers the client with status s and an error object, for every
\* upstream body; an upstream 429 reaches the client as 429.
C15_UpstreamStatusRelayed ==
    (ppc = "done" /\ upstreamAnswer.status \notin {0, 200}) =>
        /\ response.status = upstreamAnswer.status
        /\ response.error.def

\* C16: every response, to OPTIONS and to POST with any outcome, carries an
\* Access-Control-Allow-Origin header: the request's origin when it is
\* allowed, the fixed default otherwise ("*" where the handler has no
\* allow-list).
C16_EveryResponseHasCors ==
    ppc = "done" =>
        /\ response.acao # ""
        /\ deployment = "guarded" =>
              response.acao = IF OriginAllowed THEN request.origin
                              ELSE "http://localhost:5173"

Longer == IF imgSize.width > imgSize.height THEN imgSize.width ELSE imgSize.height
Shorter == IF imgSize.width > imgSize.height THEN imgSize.height ELSE imgSize.width
CanvasLonger == IF imgSize.width > imgSize.height THEN canvas.width ELSE canvas.height
CanvasShorter == IF imgSize.width > imgSize.height THEN canvas.height ELSE canvas.width

\* C17 as stated: the canvas has the source's size when max(w, h) <= 1024;
\* otherwise its longer edge is exactly 1024 and its shorter edge is
\* floor(shorter * 1024 / longer).
C17_CanvasIsExactFloor ==
    canvas # NoCanvas =>
        IF Longer <= 1024
        THEN canvas = imgSize
        ELSE /\ CanvasLonger = 1024
             /\ CanvasShorter = (Shorter * 1024) \div Longer

\* C17 amended: the same, except that when shorter * 1024 is an exact
\* multiple of longer the shorter edge may be one less than the quotient:
\* the scale factor 1024 / longer is rounded before it is multiplied.  The
\* aspect ratio is preserved within one pixel.
C17_CanvasWithinOnePixel ==
    canvas # NoCanvas =>
        IF Longer <= 1024
        THEN canvas = imgSize
        ELSE /\ CanvasLonger = 1024
             /\ CanvasShorter >= 0
             /\ \/ CanvasShorter = (Shorter * 1024) \div Longer
                \/ /\ (Shorter * 1024) % Longer = 0
                   /\ CanvasShorter = (Shorter * 1024) \div Longer - 1

C17_Witness ==
    /\ imgSize = [width |-> 1122, height |-> 1122]
    /\ canvas = [width |-> 1023, height |-> 1024]

C17_WitnessExact ==
    /\ imgSize = [width |-> 4096, height |-> 3000]
    /\ canvas = [width |-> 1024, height |-> 750]

\* C18: resizeImage never rejects, and whichever of timeout, load and
\* error comes first fixes its result: the original input string when the
\* decode errors or the timeout fires before the image loads; a load that
\* arrives later does not change the delivered result.
C18_FirstEventFixesResult ==
    /\ [](requests = 0 => pc # "rejected")
    /\ [](resizeFirst \in {"timeout", "error"} =>
             resizeSettled /\ resizedImage = base64Image)
    /\ [](resizeSettled => resizeFirst # "none")
    /\ [][resizeSettled => (resizeSettled' /\ resizedImage' = resizedImage)]_vars

\* the timeout delivered the original, then the image loaded and was drawn
C18_Witness ==
    /\ resizeFirst = "timeout"
    /\ ~imgPending
    /\ canvas = [width |-> 1024, height |-> 750]
    /\ resizedImage = base64Image
    /\ base64Image.mime = "image/png"

\* after attempt k received HTTP 429 the call waited 2000 * 2^k ms
WaitsAfter429 ==
    \A i \in 1..Len(waits) :
        waits[i].after = "429" =>
            /\ waits[i].attempt \in 0..2
            /\ waits[i].ms = 2000 * (2 ^ waits[i].attempt)

\* C19: after attempt k (k = 0, 1, 2) receives HTTP 429 the client waits
\* 2000 * 2^k ms before doing anything else, and in every run the wait
\* between attempt k and attempt k+1 is non-decreasing in k (here over the
\* attempts that received a response).
C19_BackoffNonDecreasing ==
    /\ WaitsAfter429
    /\ pc = "backoff" =>
          /\ Len(waits) > 0
          /\ waits[Len(waits)].after = "429"
          /\ waits[Len(waits)].attempt = attempts
          /\ requests = attempts + 1
    /\ \A i, j \in 1..Len(waits) :
          (i < j /\ waits[i].after # "transport" /\ waits[j].after # "transport")
              => waits[i].ms <= waits[j].ms

\* the reason C20 gives for a non-429 error response
StatedReason(st, body) ==
    LET main == IF body.kind = "object" /\ body.error.def /\ body.error.val # <<>>
                THEN body.error.val
                ELSE <<"Server error: ", ToString(st)>>
    IN  IF body.kind = "object" /\ body.details.def /\ body.details.val # <<>>
        THEN main \o <<" (">> \o body.details.val \o <<")">>
        ELSE main

\* C20: when an attempt receives a non-success status other than 429, the
\* call fails on that attempt, and the underlying reason is the body's
\* error followed by " (<details>)" when details is present, or
\* "Server error: <status>" when the body is unparsable or has no error.
C20_ErrorStatusFailsAtOnce ==
    \A i \in 1..Len(log) :
        (log[i].kind = "status" /\ log[i].status # 429) =>
            /\ i = Len(log)
            /\ pc = "rejected"
            /\ underlying = Str(StatedReason(log[i].status, resp))

\* C21: when the request of attempt k fails at transport level (fetch
\* rejects, no abort, no rate-limit signal) and k is not the final attempt,
\* another attempt starts after a short fixed delay; on the final attempt
\* the failure is propagated.
C21_TransportFailureRetried ==
    \A i \in 1..Len(log) :
        log[i].kind = "transport" =>
            IF i < 3
            THEN /\ requests > i
                 /\ Len(waits) >= i
                 /\ waits[i].ms > 0
            ELSE i = Len(log) /\ pc = "rejected"

\* an attempt is under way: its request is pending or its body is being read
AttemptUnfinished == pc \in {"fetching", "body429", "bodyOk", "bodyError"}

\* C22: the per-attempt timeout bounds the whole attempt, the reading of
\* the response body included: while the attempt is unfinished its abort
\* timer stays armed, so that it ends as a timeout failure once
\* REQUEST_TIMEOUT_MS has elapsed.
C22_TimeoutCoversWholeAttempt ==
    AttemptUnfinished => abortTimer

\* every check of the handler passes; written from the claim's list of
\* rejections
PassesEveryCheck ==
    /\ env.GEMINI_API_KEY # "" \/ env.API_KEY # ""
    /\ deployment = "guarded" =>
          /\ OriginAllowed
          /\ env.INTERNAL_API_KEY = "" \/ request.xApiKey = env.INTERNAL_API_KEY
    /\ request.body.kind = "object"
    /\ ~LacksRequiredField(request.body)
    /\ request.body.imageBase64.len <= 7000000

\* C23: each POST causes at most one call to the upstream provider:
\* exactly one when the request passes every check, none when it is
\* rejected with 400, 401, 403, 413 or the configuration 500.
C23_AtMostOneUpstreamCall ==
    method = "POST" =>
        /\ upstreamCalls <= 1
        /\ PassesEveryCheck => upstreamCalls = 1
        /\ ~PassesEveryCheck =>
              /\ upstreamCalls = 0
              /\ ppc = "done"
              /\ response.status \in {400, 401, 403, 413, 500}

C23_Witness ==
    /\ method = "POST"
    /\ ppc = "done"
    /\ upstreamCalls = 1
    /\ upstreamAnswer.status = 503
    /\ response.status = 503

\* C24: end to end, the MIME type that tags the inline image in the
\* upstream request is the type of the payload transmitted: image/jpeg when
\* normalization succeeded, the original image's type when the normalizer
\* fell back to the original payload.
C24_MimeTagMatchesPayload ==
    (upstreamCalls = 1 /\ resizedImage.mime # "") =>
        upstreamReq.mime = <<resizedImage.mime>>

\* C25: in every request the client sends, imageBase64 is a raw base64
\* payload with the data-URL prefix removed, for every input type and both
\* normalizer outcomes.
C25_PrefixAlwaysStripped ==
    requests > 0 =>
        /\ cleanBase64.mime = ""
        /\ cleanBase64.payload # <<"data:,">>

\* C27: the imageBase64 of every request the client submits is at most
\* 7,000,000 characters long, whether the image was resized or the
\* original payload was kept.
C27_SubmittedWithinCeiling ==
    requests > 0 => StringLength(cleanBase64) <= 7000000

\* C28: for every source image with width and height >= 1 both canvas
\* dimensions are >= 1, and the value resolved after a successful load is a
\* data:image/jpeg data URL.
C28_CanvasNeverEmpty ==
    canvas # NoCanvas =>
        /\ canvas.width >= 1
        /\ canvas.height >= 1
        /\ (resizeFirst = "load" /\ resizeSettled
               /\ resizedImage # base64Image) => resizedImage.mime = "image/jpeg"

CallSettled == pc \in {"resolved", "rejected"}

\* C26: within one call at most one request is in flight and at most one
\* abort timer is armed: an attempt starts only after the one before has
\* ended and its timer has been cleared, an armed timer belongs to the
\* current attempt, and none is armed once the call has settled.
C26_OneRequestOneTimer ==
    /\ Cardinality(timers) <= 1
    /\ timers \subseteq {attempts}
    /\ timers # {} => pc = "fetching"
    /\ requests > 0 =>
          requests = Len(log) + (IF CallSettled THEN 0 ELSE 1)
    /\ CallSettled => timers = {}

C26_Witness ==
    /\ pc = "fetching"
    /\ attempts = 2
    /\ timers = {2}
    /\ Len(log) = 2
    /\ log[1].status = 429

\* C29: from the moment generatePreview starts a generation request until
\* the request settles or the user acts, appState is PROCESSING; it becomes
\* RESULT only by SET_PROCESSED_IMAGE.
C29_ProcessingWhileGenerating ==
    /\ lastEvent = "generate" => state.appState = "PROCESSING"
    /\ state.appState = "RESULT" => lastEvent = "resolved"

\* C30: the outcome of a generation request is applied only if it is the
\* latest request started and capturedImage is still the image submitted,
\* so the processedImage shown in RESULT derives from the current
\* capturedImage.
C30_ResultFromCurrentImage ==
    state.appState = "RESULT" =>
        /\ state.processedImage # ""
        /\ state.processedImage = state.capturedImage

=============================================================================
